---- MODULE Spec2Model ----
(***************************************************************************)
(* boolseeker: the scan of decompiled smali trees for zero-argument        *)
(* boolean methods, the keyword classification of each method body, the    *)
(* merge of the findings of all smali roots, the output file of unique     *)
(* method names and the four category reports (src/main.go).               *)
(*                                                                         *)
(* Text is modelled by TLA+ strings; a character is a string of length 1.  *)
(***************************************************************************)
EXTENDS Integers, Sequences, FiniteSets, TLC

(***************************************************************************)
(* Strings (package strings of the Go library, on ASCII text).             *)
(***************************************************************************)
UpperChars == "ABCDEFGHIJKLMNOPQRSTUVWXYZ"
LowerChars == "abcdefghijklmnopqrstuvwxyz"
DigitChars == "0123456789"

CharAt(s, i) == SubSeq(s, i, i)

\* s[i..] , the text from index i to the end
From(s, i) == SubSeq(s, i, Len(s))

\* strings.Contains(s, substr)
Contains(s, substr) ==
    \E i \in 1..(Len(s) - Len(substr) + 1) :
        SubSeq(s, i, i + Len(substr) - 1) = substr

\* every index at which substr occurs in s
Occurrences(s, substr) ==
    { i \in 1..(Len(s) - Len(substr) + 1) : SubSeq(s, i, i + Len(substr) - 1) = substr }

SetMin(S) == CHOOSE x \in S : \A y \in S : x <= y
SetMax(S) == CHOOSE x \in S : \A y \in S : x >= y

\* strings.Index(s, substr), 1-based; 0 when substr is not in s
IndexOf(s, substr) ==
    LET at == Occurrences(s, substr) IN IF at = {} THEN 0 ELSE SetMin(at)

\* strings.LastIndex(s, substr), 1-based; 0 when substr is not in s
LastIndexOf(s, substr) ==
    LET at == Occurrences(s, substr) IN IF at = {} THEN 0 ELSE SetMax(at)

\* strings.HasSuffix(s, suffix)
HasSuffix(s, suffix) ==
    /\ Len(s) >= Len(suffix)
    /\ SubSeq(s, Len(s) - Len(suffix) + 1, Len(s)) = suffix

\* strings.TrimSuffix(s, suffix)
TrimSuffix(s, suffix) ==
    IF HasSuffix(s, suffix) THEN SubSeq(s, 1, Len(s) - Len(suffix)) ELSE s

\* unicode.ToLower on one ASCII character
LowerChar(c) ==
    IF Contains(UpperChars, c)
    THEN CharAt(LowerChars, IndexOf(UpperChars, c))
    ELSE c

\* strings.ToLower(s): every character mapped, in place (by halves)
RECURSIVE ToLower(_)
ToLower(s) ==
    IF Len(s) = 0 THEN ""
    ELSE IF Len(s) = 1 THEN LowerChar(s)
    ELSE ToLower(SubSeq(s, 1, Len(s) \div 2))
            \o ToLower(SubSeq(s, Len(s) \div 2 + 1, Len(s)))

\* strings.ReplaceAll(s, old, new) for a one-character old (by halves)
RECURSIVE ReplaceAll(_, _, _)
ReplaceAll(s, old, new) ==
    IF Len(s) = 0 THEN ""
    ELSE IF Len(s) = 1 THEN (IF s = old THEN new ELSE s)
    ELSE ReplaceAll(SubSeq(s, 1, Len(s) \div 2), old, new)
            \o ReplaceAll(SubSeq(s, Len(s) \div 2 + 1, Len(s)), old, new)

\* the class \w of package regexp: [0-9A-Za-z_]
IsWordChar(c) ==
    \/ Contains(UpperChars, c)
    \/ Contains(LowerChars, c)
    \/ Contains(DigitChars, c)
    \/ c = "_"

(***************************************************************************)
(* The keyword catalog: the flat list of SearchKeywordsInMethod and the    *)
(* four category lists of main, in the order and casing of the source.     *)
(***************************************************************************)
keywords ==
    << "ro.hardware", "ro.kernel.qemu", "ro.product.device", "ro.build.product",
       "ro.product.model", "ro.build.fingerprint", "/dev/qemu_trace",
       "/system/bin/netcfg", "magisk", "root", "test-keys", "superuser", "Superuser",
       "daemonsu", "99SuperSUDaemon", ".has_su_daemon", "genymotion", "emulator", "nox",
       "27042", "frida", "27043", "FridaGadget", "xposed", "MessageDigest",
       "getPackageInfo", "signature", "/system/app/Superuser.apk", "/system/xbin/su",
       "com.noshufou.android.su.elite", "com.noshufou.android.su", "com.yellowes.su",
       "com.koushikdutta.superuser", "com.thirdparty.superuser", "eu.chainfire.supersu",
       "/system/usr/we-need-root", "ueventd.android_x86.rc", "x86.prop",
       "ueventd.ttVM_x86.rc", "init.ttVM_x86.rc", "fstab.ttVM_x86", "fstab.vbox86",
       "init.vbox86.rc", "ueventd.vbox86.rc", "/dev/socket/qemud", "/dev/qemu_pipe",
       "/system/lib/libc_malloc_debug_qemu.so", "/sys/qemu_trace",
       "/system/bin/qemu-props", "/dev/socket/genyd", "/dev/socket/baseband_genyd",
       "/proc/tty/drivers", "/proc/cpuinfo", "com.koushikdutta.rommanager",
       "com.koushikdutta.rommanager.license", "com.dimonvideo.luckypatcher",
       "com.chelpus.lackypatch", "com.ramdroid.appquarantine",
       "com.ramdroid.appquarantinepro", "com.devadvance.rootcloak",
       "com.devadvance.rootcloakplus", "de.robv.android.xposed.installer",
       "com.saurik.substrate", "com.zachspong.temprootremovejb",
       "com.amphoras.hidemyroot", "com.amphoras.hidemyrootadfree",
       "com.formyhm.hiderootPremium", "com.formyhm.hideroot", "me.phh.superuser",
       "eu.chainfire.supersu.pro", "com.kingouser.com",
       "com.android.vending.billing.InAppBillingService.COIN", "su", "busybox", "supersu",
       "Superuser.apk", "KingoUser.apk", "SuperSu.apk", "ro.build.selinux",
       "ro.debuggable", "service.adb.root", "ro.secure", "com.topjohnwu.magisk",
       "/data/local/bin/su", "/data/local/su", "/data/local/xbin/su",
       "/dev/com.koushikdutta.superuser.daemon/", "/sbin/su", "/system/bin/failsafe/su",
       "/su/bin/su", "/system/sd/xbin/su", "/system/xbin/daemonsu", "/system/sbin/su",
       "/vendor/bin/su", "/cache/su", "/data/su", "/dev/su", "/system/bin/.ext/su",
       "/system/usr/we-need-root/su", "/system/app/Kinguser.apk", "/data/adb/magisk",
       "/sbin/.magisk", "/cache/.disable_magisk", "/dev/.magisk.unblock",
       "/cache/magisk.log", "/data/adb/magisk.img", "/data/adb/magisk.db",
       "/data/adb/magisk_simple", "/init.magisk.rc", "/system/xbin/ku.sud",
       "/data/adb/ksu", "/data/adb/ksud", "me.weishu.kernelsu", "init.svc.qemud",
       "init.svc.qemu-props", "qemu.hw.mainkeys", "qemu.sf.fake_camera",
       "qemu.sf.lcd_density", "ro.bootloader", "ro.bootmode", "ro.kernel.android.qemud",
       "ro.kernel.qemu.gles", "ro.product.name", "ro.serialno", "geny" >>

root_detection_keywords ==
    << "com.noshufou.android.su", "com.noshufou.android.su.elite", "eu.chainfire.supersu",
       "com.koushikdutta.superuser", "com.thirdparty.superuser", "com.yellowes.su",
       "com.koushikdutta.rommanager", "com.koushikdutta.rommanager.license",
       "com.dimonvideo.luckypatcher", "com.chelpus.lackypatch",
       "com.ramdroid.appquarantine", "com.ramdroid.appquarantinepro",
       "com.devadvance.rootcloak", "com.devadvance.rootcloakplus",
       "de.robv.android.xposed.installer", "com.saurik.substrate",
       "com.zachspong.temprootremovejb", "com.amphoras.hidemyroot",
       "com.amphoras.hidemyrootadfree", "com.formyhm.hiderootPremium",
       "com.formyhm.hideroot", "me.phh.superuser", "eu.chainfire.supersu.pro",
       "com.kingouser.com", "com.android.vending.billing.InAppBillingService.COIN",
       "com.topjohnwu.magisk", "su", "busybox", "supersu", "Superuser.apk",
       "KingoUser.apk", "SuperSu.apk", "magisk", "ro.build.selinux", "ro.debuggable",
       "service.adb.root", "ro.secure", "root", "test-keys", "superuser", "Superuser",
       "daemonsu", "99SuperSUDaemon", ".has_su_daemon", "/system/app/Superuser.apk",
       "/system/xbin/su", "/system/usr/we-need-root", "/data/local/bin/su",
       "/data/local/su", "/data/local/xbin/su", "/dev/com.koushikdutta.superuser.daemon/",
       "/sbin/su", "/system/bin/failsafe/su", "/system/bin/su", "/su/bin/su",
       "/system/sd/xbin/su", "/system/xbin/busybox", "/system/xbin/daemonsu",
       "/system/xbin/su", "/system/sbin/su", "/vendor/bin/su", "/cache/su", "/data/su",
       "/dev/su", "/system/bin/.ext/su", "/system/usr/we-need-root/su",
       "/system/app/Kinguser.apk", "/data/adb/magisk", "/sbin/.magisk",
       "/cache/.disable_magisk", "/dev/.magisk.unblock", "/cache/magisk.log",
       "/data/adb/magisk.img", "/data/adb/magisk.db", "/data/adb/magisk_simple",
       "/init.magisk.rc", "/system/xbin/ku.sud", "/data/adb/ksu", "/data/adb/ksud",
       "me.weishu.kernelsu" >>

emulator_detection_keywords ==
    << "init.svc.qemud", "init.svc.qemu-props", "qemu.hw.mainkeys", "qemu.sf.fake_camera",
       "qemu.sf.lcd_density", "ro.bootloader", "ro.bootmode", "ro.hardware",
       "ro.kernel.android.qemud", "ro.kernel.qemu.gles", "ro.kernel.qemu",
       "ro.product.device", "ro.product.model", "ro.product.name", "ro.serialno",
       "ueventd.android_x86.rc", "x86.prop", "ueventd.ttVM_x86.rc", "init.ttVM_x86.rc",
       "fstab.ttVM_x86", "fstab.vbox86", "init.vbox86.rc", "ueventd.vbox86.rc",
       "/dev/socket/qemud", "/dev/qemu_pipe", "/system/lib/libc_malloc_debug_qemu.so",
       "/sys/qemu_trace", "/system/bin/qemu-props", "/dev/socket/genyd",
       "/dev/socket/baseband_genyd", "/proc/tty/drivers", "/proc/cpuinfo", "genymotion",
       "geny", "emulator", "nox", "/dev/qemu_trace", "/system/bin/netcfg" >>

runtime_integrity_verification_keywords ==
    << "27042", "frida", "27043", "FridaGadget", "xposed" >>

file_integrity_keywords ==
    << "MessageDigest", "getPackageInfo", "signature" >>

\* the four categories, in the order main reports them
Categories == <<"root", "emulator", "runtime", "file">>

CategoryKeywords(c) ==
    CASE c = "root"     -> root_detection_keywords
      [] c = "emulator" -> emulator_detection_keywords
      [] c = "runtime"  -> runtime_integrity_verification_keywords
      [] c = "file"     -> file_integrity_keywords

\* the elements of a sequence, as a set
Range(seq) == { seq[i] : i \in 1..Len(seq) }

(***************************************************************************)
(* SearchKeywordsInMethod: the keywords of the flat list, in list order,   *)
(* that are substrings of the lower-cased method text.                     *)
(***************************************************************************)
SearchKeywordsInMethod(methodContent) ==
    LET lowered == ToLower(methodContent)
        foundKeywords == SelectSeq(keywords, LAMBDA keyword : Contains(lowered, keyword))
    IN  [foundKeywords |-> foundKeywords, found |-> Len(foundKeywords) > 0]

(***************************************************************************)
(* The two patterns of FindBooleanMethodsInSmali, applied to one line.     *)
(***************************************************************************)
\* the index before the run of \w characters that ends at k (0: the run
\* reaches the start of the line)
WordStart(line, k) ==
    SetMax({ t \in 0..k : t = 0 \/ ~IsWordChar(CharAt(line, t)) })

\* methodPattern  \.method.* (\w+)\(\)Z : the matches <<i, j, k>>, ".method"
\* at i, the blank at j, the captured name in j+1..k, "()Z" after k; "."
\* matches no newline. The name is the whole run of \w before "(".
MethodMatches(line) ==
    { m \in { <<i, WordStart(line, k - 1), k>> :
                i \in Occurrences(line, ".method"), k \in Occurrences(line, "()Z") } :
        /\ m[2] >= 1
        /\ m[2] < m[3] - 1
        /\ CharAt(line, m[2]) = " "
        /\ m[1] + 7 <= m[2]
        /\ \A t \in (m[1] + 7)..(m[2] - 1) : CharAt(line, t) # "\n" }

\* regexp.FindStringSubmatch: the leftmost match, ".*" as long as it can be;
\* name is submatch 1
methodPattern(line) ==
    LET all   == MethodMatches(line)
        i0    == SetMin({ m[1] : m \in all })
        j0    == SetMax({ m[2] : m \in { n \in all : n[1] = i0 } })
        best  == CHOOSE m \in all : m[1] = i0 /\ m[2] = j0
    IN  IF all = {} THEN [matched |-> FALSE, name |-> ""]
        ELSE [matched |-> TRUE, name |-> SubSeq(line, best[2] + 1, best[3] - 1)]

\* endMethodPattern  \.end method , MatchString
endMethodPattern(line) == Contains(line, ".end method")

(***************************************************************************)
(* bufio.Reader.ReadString('\n') on the unread text of a file: the line    *)
(* with its newline, or the rest of the text together with io.EOF.         *)
(***************************************************************************)
ReadString(unread) ==
    LET p == IndexOf(unread, "\n")
    IN  IF p = 0
        THEN [line |-> unread, eof |-> TRUE, unread |-> ""]
        ELSE [line |-> SubSeq(unread, 1, p), eof |-> FALSE,
              unread |-> From(unread, p + 1)]

(***************************************************************************)
(* Names: os.FileInfo.Name, the class name of a file, the method name.     *)
(***************************************************************************)
\* info.Name(): the last element of the path
BaseName(path) == From(path, LastIndexOf(path, "/") + 1)

IsSmali(entry) == ~entry.isDir /\ HasSuffix(BaseName(entry.path), ".smali")

\* ClassName with the "$" of inner classes left in place
ClassName_KeepsDollar(relativePath) ==
    ReplaceAll(TrimSuffix(relativePath, ".smali"), "/", ".")

ClassName(relativePath) ==
    ReplaceAll(ReplaceAll(TrimSuffix(relativePath, ".smali"), "/", "."), "$", ".")

FullMethodName(cls, method) == cls \o "." \o method \o "()"

(***************************************************************************)
(* Maps from method name to keyword list.                                  *)
(***************************************************************************)
EmptyMap == [n \in {} |-> <<>>]

Put(m, k, v) == [n \in (DOMAIN m) \cup {k} |-> IF n = k THEN v ELSE m[n]]

\* for k, v := range src { dst[k] = v }
MergeMap(dst, src) ==
    [n \in (DOMAIN dst) \cup (DOMAIN src) |-> IF n \in DOMAIN src THEN src[n] ELSE dst[n]]

(***************************************************************************)
(* The loop body of the scan, from the line read to the unit recorded.     *)
(***************************************************************************)
\* RecordUnit with the name of a matched unit left out of the method list
RecordUnit_FoundNotListed(res, fullMethodName, search) ==
    [methods |-> IF search.found THEN res.methods ELSE Append(res.methods, fullMethodName),
     map     |-> IF search.found
                 THEN Put(res.map, fullMethodName, search.foundKeywords)
                 ELSE res.map]

\* what a closed unit adds to the method list and the findings
RecordUnit(res, fullMethodName, search) ==
    [methods |-> Append(res.methods, fullMethodName),
     map     |-> IF search.found
                 THEN Put(res.map, fullMethodName, search.foundKeywords)
                 ELSE res.map]

\* ScanLine without methodContent.Reset() on a declaration
ScanLine_NoReset(st, line) ==
    LET methodMatch == methodPattern(line)
        current == IF methodMatch.matched THEN methodMatch.name ELSE st.currentMethod
        open    == methodMatch.matched \/ st.inMethod
        content == IF open THEN st.methodContent \o line ELSE st.methodContent
        closed  == open /\ endMethodPattern(line)
    IN  [currentMethod |-> current,
         inMethod      |-> open /\ ~closed,
         methodContent |-> content,
         closed        |-> closed]

\* ScanLine closing the open unit on any line, terminator or not
ScanLine_ClosesOnAnyLine(st, line) ==
    LET methodMatch == methodPattern(line)
        current == IF methodMatch.matched THEN methodMatch.name ELSE st.currentMethod
        open    == methodMatch.matched \/ st.inMethod
        reset   == IF methodMatch.matched THEN "" ELSE st.methodContent
        content == IF open THEN reset \o line ELSE reset
    IN  [currentMethod |-> current,
         inMethod      |-> FALSE,
         methodContent |-> content,
         closed        |-> open]

\* the scanner state after one line: st = [currentMethod, inMethod,
\* methodContent]; closed tells whether the line closed a unit
ScanLine(st, line) ==
    LET methodMatch == methodPattern(line)
        current == IF methodMatch.matched THEN methodMatch.name ELSE st.currentMethod
        open    == methodMatch.matched \/ st.inMethod
        reset   == IF methodMatch.matched THEN "" ELSE st.methodContent
        content == IF open THEN reset \o line ELSE reset
        closed  == open /\ endMethodPattern(line)
    IN  [currentMethod |-> current,
         inMethod      |-> open /\ ~closed,
         methodContent |-> content,
         closed        |-> closed]

\* MergeRoot with booleanMethods = methods in place of the append
MergeRoot_Overwrites(res, methods, keywordsMap) ==
    [methods |-> methods,
     map     |-> MergeMap(res.map, keywordsMap)]

\* main: booleanMethods = append(booleanMethods, methods...) and the merge
\* of keywordsMap
MergeRoot(res, methods, keywordsMap) ==
    [methods |-> res.methods \o methods,
     map     |-> MergeMap(res.map, keywordsMap)]

(***************************************************************************)
(* The category reports of main.                                           *)
(***************************************************************************)
\* FilterKeywords that looks at the first keyword of the method only
FilterKeywords_FirstOnly(kws, list) ==
    IF kws = <<>> THEN <<>>
    ELSE SelectSeq(list, LAMBDA runtimeKeyword : Head(kws) = runtimeKeyword)

\* for each keyword, for each keyword of the category list: equal, append
RECURSIVE FilterKeywords(_, _)
FilterKeywords(kws, list) ==
    IF kws = <<>> THEN <<>>
    ELSE SelectSeq(list, LAMBDA runtimeKeyword : Head(kws) = runtimeKeyword)
            \o FilterKeywords(Tail(kws), list)

\* methodsWithKeywords of one category
CategoryReport(map, c) ==
    LET filtered == [m \in DOMAIN map |-> FilterKeywords(map[m], CategoryKeywords(c))]
    IN  [m \in { n \in DOMAIN map : Len(filtered[n]) > 0 } |-> filtered[m]]

\* every order of the elements of a finite set
Perms(S) ==
    { f \in [1..Cardinality(S) -> S] : \A a, b \in 1..Cardinality(S) : f[a] = f[b] => a = b }

(***************************************************************************)
(* The input: the smali roots of the decoded directory in the order of     *)
(* filepath.Glob, each the entries of its tree in the order of             *)
(* filepath.Walk (lexical), an entry being [path, isDir, content].         *)
(***************************************************************************)
MaxLines == 4
MaxUnits == 2

\* the lines of the scanned file: two declarations, the terminator, a body
\* line
DeclA    == ".method public isA()Z\n"
DeclRoot == ".method static isRooted()Z\n"
EndLine  == ".end method\n"
TextLine == "const-string v0, \"MessageDigest\"\n"

Lines == <<DeclA, DeclRoot, EndLine, TextLine>>

\* whole method units: root keywords, no keyword, keywords of the three
\* other categories, a keyword of no category
UnitRoot  == ".method public isA()Z\nconst-string v0, \"/system/xbin/su\"\n.end method\n"
UnitPlain == ".method public isA()Z\nreturn v0\n.end method\n"
UnitMixed == ".method public isA()Z\nconst-string v0, \"ro.kernel.qemu frida signature\"\n.end method\n"
UnitPrint == ".method static isB()Z\nconst-string v0, \"ro.build.fingerprint\"\n.end method\n"

Units == <<UnitRoot, UnitPlain, UnitMixed, UnitPrint>>

NotesText == ".method public isNote()Z\nfrida\n.end method\n"

RECURSIVE Concat(_)
Concat(texts) == IF texts = <<>> THEN "" ELSE Head(texts) \o Concat(Tail(texts))

\* the tree of one root: b/C.smali and b$C.smali (both the class b.C) when
\* they hold text, and b/n.txt
RootWalk(inner, outer) ==
    <<[path |-> ".", isDir |-> TRUE, content |-> ""],
      [path |-> "b", isDir |-> TRUE, content |-> ""]>>
    \o (IF inner.present
        THEN <<[path |-> "b/C.smali", isDir |-> FALSE, content |-> inner.content]>>
        ELSE <<>>)
    \o <<[path |-> "b/n.txt", isDir |-> FALSE, content |-> NotesText]>>
    \o (IF outer.present
        THEN <<[path |-> "b$C.smali", isDir |-> FALSE, content |-> outer.content]>>
        ELSE <<>>)

NoFile == [present |-> FALSE, content |-> ""]
File(text) == [present |-> TRUE, content |-> text]
FileOf(units) == IF units = <<>> THEN NoFile ELSE File(Concat(units))

\* the trees with at most MaxUnits method units in all, in b/C.smali and
\* b$C.smali of the first root and b/C.smali of the second
RunInputs ==
    { (IF u1 \o u2 = <<>> THEN <<>> ELSE <<RootWalk(FileOf(u1), FileOf(u2))>>)
        \o (IF u3 = <<>> THEN <<>> ELSE <<RootWalk(FileOf(u3), NoFile)>>) :
        <<u1, u2, u3>> \in
            { <<SubSeq(u, 1, c[1]), SubSeq(u, c[1] + 1, c[2]), SubSeq(u, c[2] + 1, Len(u))>> :
                <<u, c>> \in
                    { <<v, d>> \in (UNION { [1..n -> Range(Units)] : n \in 0..MaxUnits })
                                    \X ((0..MaxUnits) \X (0..MaxUnits)) :
                        d[1] <= d[2] /\ d[2] <= Len(v) } } }

\* one root with one file b/C.smali of at most MaxLines lines, the last
\* line with or without its newline
ScanInputs ==
    { <<RootWalk(File(IF nl \/ ls = <<>> THEN Concat(ls)
                      ELSE SubSeq(Concat(ls), 1, Len(Concat(ls)) - 1)), NoFile)>> :
        <<ls, nl>> \in (UNION { [1..n -> Range(Lines)] : n \in 0..MaxLines }) \X BOOLEAN }

MaxFileLines == 3

\* a line that matches the declaration pattern and the terminator pattern
BothLine == ".method final .end method isC()Z\n"

FileLines == <<DeclA, EndLine, TextLine, BothLine>>

\* one root with the two files b/C.smali and b$C.smali, read in this order,
\* of at most MaxFileLines lines together; the last line of b/C.smali with
\* or without its newline
FilesInputs ==
    { <<RootWalk(File(IF nl \/ c = 0 THEN Concat(SubSeq(ls, 1, c))
                      ELSE SubSeq(Concat(SubSeq(ls, 1, c)), 1,
                                  Len(Concat(SubSeq(ls, 1, c))) - 1)),
                 File(Concat(SubSeq(ls, c + 1, Len(ls)))))>> :
        <<ls, c, nl>> \in
            { t \in (UNION { [1..n -> Range(FileLines)] : n \in 0..MaxFileLines })
                        \X (0..MaxFileLines) \X BOOLEAN : t[2] <= Len(t[1]) } }

(***************************************************************************)
(* State.                                                                  *)
(***************************************************************************)
VARIABLES
    smaliDirs,                  \* the input trees
    pc,                         \* where the run is
    dirIdx,                     \* roots merged by main so far
    entryIdx,                   \* entries of the current root walked so far
    className,                  \* of the file being read
    unread,                     \* the text of the file not yet read
    currentMethod, inMethod, methodContent,
    fnMethods, fnMap,           \* booleanMethods, booleanMethodsWithKeywords of the scan
    booleanMethods, booleanMethodsWithKeywords,   \* of main
    outputCreated, outputLines, \* the output file
    totalCount,                 \* the total printed; -1 before
    printed, reports,           \* per category: what was printed, and the entries
    generalNotice,              \* "No keywords found in Java boolean methods."
    err,                        \* the error that ended the run; "nil" when none
    units                       \* history: every unit closed, with what was classified

vars == <<smaliDirs, pc, dirIdx, entryIdx, className, unread, currentMethod, inMethod,
          methodContent, fnMethods, fnMap, booleanMethods, booleanMethodsWithKeywords,
          outputCreated, outputLines, totalCount, printed, reports, generalNotice, err, units>>

scanVars == <<className, unread, currentMethod, inMethod, methodContent>>
findVars == <<fnMethods, fnMap>>
mainVars == <<booleanMethods, booleanMethodsWithKeywords>>
outVars  == <<outputCreated, outputLines, totalCount, printed, reports, generalNotice>>

InitRest ==
    /\ pc = "main"
    /\ dirIdx = 0
    /\ entryIdx = 0
    /\ className = ""
    /\ unread = ""
    /\ currentMethod = ""
    /\ inMethod = FALSE
    /\ methodContent = ""
    /\ fnMethods = <<>>
    /\ fnMap = EmptyMap
    /\ booleanMethods = <<>>
    /\ booleanMethodsWithKeywords = EmptyMap
    /\ outputCreated = FALSE
    /\ outputLines = <<>>
    /\ totalCount = -1
    /\ printed = [c \in Range(Categories) |-> "none"]
    /\ reports = [c \in Range(Categories) |-> EmptyMap]
    /\ generalNotice = FALSE
    /\ err = "nil"
    /\ units = <<>>

Init == smaliDirs \in RunInputs /\ InitRest

InitScan == smaliDirs \in ScanInputs /\ InitRest

InitFiles == smaliDirs \in FilesInputs /\ InitRest

CurrentRoot == smaliDirs[dirIdx + 1]
CurrentEntry == CurrentRoot[entryIdx + 1]

(***************************************************************************)
(* main, lines 335-336: the next root, FindBooleanMethodsInSmali entered.  *)
(***************************************************************************)
EnterRoot ==
    /\ pc = "main"
    /\ dirIdx < Len(smaliDirs)
    /\ pc' = "walk"
    /\ entryIdx' = 0
    /\ fnMethods' = <<>>
    /\ fnMap' = EmptyMap
    /\ UNCHANGED <<smaliDirs, dirIdx, scanVars, mainVars, outVars, units, err>>

(***************************************************************************)
(* The walk callback on an entry that is a directory or no .smali file.    *)
(***************************************************************************)
SkipEntry ==
    /\ pc = "walk"
    /\ entryIdx < Len(CurrentRoot)
    /\ ~IsSmali(CurrentEntry)
    /\ entryIdx' = entryIdx + 1
    /\ UNCHANGED <<smaliDirs, pc, dirIdx, scanVars, findVars, mainVars, outVars, units, err>>

(***************************************************************************)
(* The walk callback on a .smali file: opened, class name, fresh scanner.  *)
(***************************************************************************)
\* OpenFile with the scanner's variables declared outside the walk callback:
\* the open flag, the name and the buffered text stay as the file before
\* left them
OpenFile_KeepsScanner ==
    /\ pc = "walk"
    /\ entryIdx < Len(CurrentRoot)
    /\ IsSmali(CurrentEntry)
    /\ pc' = "read"
    /\ className' = ClassName(CurrentEntry.path)
    /\ unread' = CurrentEntry.content
    /\ UNCHANGED <<currentMethod, inMethod, methodContent>>
    /\ UNCHANGED <<smaliDirs, dirIdx, entryIdx, findVars, mainVars, outVars, units, err>>

OpenFile ==
    /\ pc = "walk"
    /\ entryIdx < Len(CurrentRoot)
    /\ IsSmali(CurrentEntry)
    /\ pc' = "read"
    /\ className' = ClassName(CurrentEntry.path)
    /\ unread' = CurrentEntry.content
    /\ currentMethod' = ""
    /\ inMethod' = FALSE
    /\ methodContent' = ""
    /\ UNCHANGED <<smaliDirs, dirIdx, entryIdx, findVars, mainVars, outVars, units, err>>

(***************************************************************************)
(* One turn of the read loop, lines 138-170.                               *)
(***************************************************************************)
ReadLine ==
    /\ pc = "read"
    /\ LET rd == ReadString(unread)
           st == ScanLine([currentMethod |-> currentMethod, inMethod |-> inMethod,
                           methodContent |-> methodContent], rd.line)
           fullMethodName == FullMethodName(className, st.currentMethod)
           search == SearchKeywordsInMethod(st.methodContent)
           res == RecordUnit([methods |-> fnMethods, map |-> fnMap], fullMethodName, search)
       IN  IF rd.eof
           THEN /\ pc' = "walk"
                /\ entryIdx' = entryIdx + 1
                /\ unread' = rd.unread
                /\ UNCHANGED <<className, currentMethod, inMethod, methodContent,
                               findVars, units>>
           ELSE /\ unread' = rd.unread
                /\ currentMethod' = st.currentMethod
                /\ inMethod' = st.inMethod
                /\ methodContent' = st.methodContent
                /\ IF st.closed
                   THEN /\ fnMethods' = res.methods
                        /\ fnMap' = res.map
                        /\ units' = Append(units,
                                [dir |-> dirIdx + 1, entry |-> entryIdx + 1,
                                 end |-> Len(CurrentEntry.content) - Len(rd.unread),
                                 method |-> st.currentMethod,
                                 name |-> fullMethodName, body |-> st.methodContent,
                                 keywords |-> search.foundKeywords, found |-> search.found])
                   ELSE UNCHANGED <<findVars, units>>
                /\ UNCHANGED <<pc, entryIdx, className>>
    /\ UNCHANGED <<smaliDirs, dirIdx, mainVars, outVars, err>>

(***************************************************************************)
(* The failures of a scan: the callback is handed an error, os.Open fails, *)
(* ReadString fails. The walk stops and lines 175-177 return nil, nil, err.*)
(***************************************************************************)
\* ScanFails with the callback returning nil: the entry is skipped and the
\* walk goes on
ScanFails_SkipsEntry(e) ==
    /\ pc' = "walk"
    /\ err' = e
    /\ entryIdx' = entryIdx + 1
    /\ UNCHANGED <<smaliDirs, dirIdx, scanVars, findVars, mainVars, outVars, units>>

ScanFails(e) ==
    /\ pc' = "failed"
    /\ err' = e
    /\ fnMethods' = <<>>
    /\ fnMap' = EmptyMap
    /\ UNCHANGED <<smaliDirs, dirIdx, entryIdx, scanVars, mainVars, outVars, units>>

WalkError ==
    /\ pc = "walk"
    /\ entryIdx < Len(CurrentRoot)
    /\ ScanFails("walk")

OpenError ==
    /\ pc = "walk"
    /\ entryIdx < Len(CurrentRoot)
    /\ IsSmali(CurrentEntry)
    /\ ScanFails("open")

ReadError ==
    /\ pc = "read"
    /\ ScanFails("read")

\* main, lines 337-341
ExitOnScanError ==
    /\ pc = "failed"
    /\ pc' = "exit"
    /\ UNCHANGED <<smaliDirs, dirIdx, entryIdx, scanVars, findVars, mainVars, outVars, units, err>>

(***************************************************************************)
(* The walk is over: the scan returns, main merges (lines 342-345).        *)
(***************************************************************************)
ReturnRoot ==
    /\ pc = "walk"
    /\ entryIdx = Len(CurrentRoot)
    /\ LET res == MergeRoot([methods |-> booleanMethods, map |-> booleanMethodsWithKeywords],
                            fnMethods, fnMap)
       IN  /\ booleanMethods' = res.methods
           /\ booleanMethodsWithKeywords' = res.map
    /\ pc' = "main"
    /\ dirIdx' = dirIdx + 1
    /\ UNCHANGED <<smaliDirs, entryIdx, scanVars, findVars, outVars, units, err>>

(***************************************************************************)
(* main, lines 350-368: the set of names, the output file, one line each   *)
(* in the order of the map iteration.                                      *)
(***************************************************************************)
methodSet == Range(booleanMethods)

WriteOutput ==
    /\ pc = "main"
    /\ dirIdx = Len(smaliDirs)
    /\ \E order \in Perms(methodSet) :
          outputLines' = [i \in 1..Len(order) |-> order[i] \o "\n"]
    /\ outputCreated' = TRUE
    /\ pc' = "written"
    /\ UNCHANGED <<smaliDirs, dirIdx, entryIdx, scanVars, findVars, mainVars,
                   totalCount, printed, reports, generalNotice, units, err>>

\* os.Create fails
CreateError ==
    /\ pc = "main"
    /\ dirIdx = Len(smaliDirs)
    /\ pc' = "exit"
    /\ err' = "create"
    /\ UNCHANGED <<smaliDirs, dirIdx, entryIdx, scanVars, findVars, mainVars, outVars, units>>

\* a WriteString fails: the lines before it are in the file
WriteError ==
    /\ pc = "main"
    /\ dirIdx = Len(smaliDirs)
    /\ \E order \in Perms(methodSet) : \E n \in 0..(Len(order) - 1) :
          outputLines' = [i \in 1..n |-> order[i] \o "\n"]
    /\ outputCreated' = TRUE
    /\ pc' = "exit"
    /\ err' = "write"
    /\ UNCHANGED <<smaliDirs, dirIdx, entryIdx, scanVars, findVars, mainVars,
                   totalCount, printed, reports, generalNotice, units>>

(***************************************************************************)
(* main, lines 374-500: the total and the four category reports.           *)
(***************************************************************************)
PrintReports ==
    /\ pc = "written"
    /\ totalCount' = Cardinality(methodSet)
    /\ IF Cardinality(DOMAIN booleanMethodsWithKeywords) > 0
       THEN /\ reports' = [c \in Range(Categories) |->
                              CategoryReport(booleanMethodsWithKeywords, c)]
            /\ printed' = [c \in Range(Categories) |->
                              IF DOMAIN CategoryReport(booleanMethodsWithKeywords, c) # {}
                              THEN "list" ELSE "notice"]
            /\ generalNotice' = FALSE
       ELSE /\ generalNotice' = TRUE
            /\ UNCHANGED <<printed, reports>>
    /\ pc' = "done"
    /\ UNCHANGED <<smaliDirs, dirIdx, entryIdx, scanVars, findVars, mainVars,
                   outputCreated, outputLines, units, err>>

Next ==
    \/ EnterRoot
    \/ SkipEntry
    \/ OpenFile
    \/ ReadLine
    \/ WalkError
    \/ OpenError
    \/ ReadError
    \/ ExitOnScanError
    \/ ReturnRoot
    \/ WriteOutput
    \/ CreateError
    \/ WriteError
    \/ PrintReports

Spec == Init /\ [][Next]_vars

SpecScan == InitScan /\ [][Next]_vars

SpecFiles == InitFiles /\ [][Next]_vars

(***************************************************************************)
(* What the properties speak of.                                           *)
(***************************************************************************)
\* the scan of every root is over and merged
ScanComplete == pc \in {"main", "written", "done"} /\ dirIdx = Len(smaliDirs)

\* the .smali files of the input, as <<root, entry>>
SmaliFiles ==
    { f \in UNION { {d} \X (1..Len(smaliDirs[d])) : d \in 1..Len(smaliDirs) } :
        IsSmali(smaliDirs[f[1]][f[2]]) }

ContentOf(f) == smaliDirs[f[1]][f[2]].content
PathOf(f)    == smaliDirs[f[1]][f[2]].path

\* A line of a text is named by the index of its last character. The lines
\* ended by a newline are the ones ReadString delivers; AllLineEnds adds
\* the rest of a text that does not end with a newline.
ReadLineEnds(text) == Occurrences(text, "\n")
AllLineEnds(text) ==
    ReadLineEnds(text)
        \cup (IF text # "" /\ CharAt(text, Len(text)) # "\n" THEN {Len(text)} ELSE {})
LineStart(text, e) == 1 + SetMax({0} \cup { p \in ReadLineEnds(text) : p < e })
LineAt(text, e) == SubSeq(text, LineStart(text, e), e)
DeclLines(text, ends) == { e \in ends : methodPattern(LineAt(text, e)).matched }
TermLines(text, ends) == { e \in ends : endMethodPattern(LineAt(text, e)) }

\* the well-formed pairs <<a, b>> among the lines decl (declarations) and
\* term (terminators): a declaration, then a terminator, and between them
\* no other declaration and no other terminator
WellFormedPairs(decl, term) ==
    { p \in decl \X term :
        /\ p[1] <= p[2]
        /\ \A c \in decl : ~(p[1] < c /\ c <= p[2])
        /\ \A c \in term : ~(p[1] <= c /\ c < p[2]) }

\* the first character of the text a unit was classified on
UnitStart(u) == u.end - Len(u.body) + 1

UnitsOfFile(f) == { i \in 1..Len(units) : units[i].dir = f[1] /\ units[i].entry = f[2] }

\* C1: every well-formed pair of every .smali file, the last line of a file
\* with or without its newline, yields one method name (as many names as
\* pairs, before deduplication), classified on exactly the text from its
\* declaration line through its terminator line.
C1_EveryPairYieldsItsUnit ==
    ScanComplete =>
        /\ \A f \in SmaliFiles :
            LET text  == ContentOf(f)
                pairs == WellFormedPairs(DeclLines(text, AllLineEnds(text)),
                                         TermLines(text, AllLineEnds(text)))
            IN  /\ Cardinality(UnitsOfFile(f)) = Cardinality(pairs)
                /\ \A p \in pairs : \E i \in UnitsOfFile(f) :
                      /\ units[i].end = p[2]
                      /\ units[i].body = SubSeq(text, LineStart(text, p[1]), p[2])
                      /\ units[i].name =
                            FullMethodName(ClassName(PathOf(f)),
                                           methodPattern(LineAt(text, p[1])).name)
        /\ booleanMethods = [i \in 1..Len(units) |-> units[i].name]

\* C2: a classified text is matched exactly when some keyword of the flat
\* list, lower-cased, is a substring of the lower-cased text.
C2_MatchedIffKeywordIgnoringCase ==
    \A i \in 1..Len(units) :
        units[i].found <=>
            \E k \in 1..Len(keywords) :
                Contains(ToLower(units[i].body), ToLower(keywords[k]))

\* the last unit closed, in scan order, under each name
LastUnitOf(n) == units[SetMax({ i \in 1..Len(units) : units[i].name = n })]

\* the names closed in more than one file (of one root or of several)
NamesOfSeveralFiles ==
    { units[i].name : i \in { j \in 1..Len(units) :
        \E k \in 1..Len(units) :
            /\ units[k].name = units[j].name
            /\ <<units[k].dir, units[k].entry>> # <<units[j].dir, units[j].entry>> } }

\* C3: the keyword list finally associated with a name closed in several
\* files or roots is that of the last unit closed under the name; when that
\* unit matched nothing the name has no keywords and is in no category
\* report.
C3_LastUnitWins ==
    pc = "done" =>
        \A n \in NamesOfSeveralFiles :
            IF LastUnitOf(n).found
            THEN /\ n \in DOMAIN booleanMethodsWithKeywords
                 /\ booleanMethodsWithKeywords[n] = LastUnitOf(n).keywords
            ELSE /\ n \notin DOMAIN booleanMethodsWithKeywords
                 /\ \A c \in Range(Categories) : n \notin DOMAIN reports[c]

(***************************************************************************)
(* The same units scanned and merged in another order: the roots in the    *)
(* order dirOrder, the files of root d in the order fileOrder[d].          *)
(***************************************************************************)
NoResult == [methods |-> <<>>, map |-> EmptyMap]

UnitsIn(d, e) == SelectSeq(units, LAMBDA u : u.dir = d /\ u.entry = e)

RECURSIVE RecordAll(_, _)
RecordAll(res, us) ==
    IF us = <<>> THEN res
    ELSE RecordAll(RecordUnit(res, Head(us).name,
                              [foundKeywords |-> Head(us).keywords, found |-> Head(us).found]),
                   Tail(us))

RECURSIVE ScanIn(_, _, _)
ScanIn(res, d, files) ==
    IF files = <<>> THEN res
    ELSE ScanIn(RecordAll(res, UnitsIn(d, Head(files))), d, Tail(files))

RECURSIVE RunIn(_, _, _)
RunIn(res, dirOrder, fileOrder) ==
    IF dirOrder = <<>> THEN res
    ELSE LET found == ScanIn(NoResult, Head(dirOrder), fileOrder[Head(dirOrder)])
         IN  RunIn(MergeRoot(res, found.methods, found.map), Tail(dirOrder), fileOrder)

DirsWithUnits == { units[i].dir : i \in 1..Len(units) }
FilesWithUnits(d) == { units[i].entry : i \in { j \in 1..Len(units) : units[j].dir = d } }

FileOrders ==
    { fo \in [DirsWithUnits -> UNION { Perms(FilesWithUnits(d)) : d \in DirsWithUnits }] :
        \A d \in DirsWithUnits : fo[d] \in Perms(FilesWithUnits(d)) }

ReportsOf(map) == [c \in Range(Categories) |-> CategoryReport(map, c)]

\* a report as sets: per name, the set of its keywords
AsSets(report) == [n \in DOMAIN report |-> Range(report[n])]

SameReports(r1, r2) == \A c \in Range(Categories) : AsSets(r1[c]) = AsSets(r2[c])

\* C4 as stated: in whatever order the same files and roots are scanned and
\* merged, the set of names and the four reports are those of this run.
C4_AnyOrderSameResult ==
    pc = "done" =>
        \A dirOrder \in Perms(DirsWithUnits) : \A fileOrder \in FileOrders :
            LET other == RunIn(NoResult, dirOrder, fileOrder)
            IN  /\ Range(other.methods) = methodSet
                /\ SameReports(ReportsOf(other.map), reports)

\* units closed under one name never differ in their matched keywords
NamesAgreeOnKeywords ==
    \A i, j \in 1..Len(units) :
        units[i].name = units[j].name => units[i].keywords = units[j].keywords

\* C4, amended: the set of names is the same in every order; the four
\* reports are the same in every order when the units closed under one name
\* all matched the same keywords.
C4_AnyOrderSameNames ==
    pc = "done" =>
        \A dirOrder \in Perms(DirsWithUnits) : \A fileOrder \in FileOrders :
            LET other == RunIn(NoResult, dirOrder, fileOrder)
            IN  /\ Range(other.methods) = methodSet
                /\ NamesAgreeOnKeywords => SameReports(ReportsOf(other.map), reports)

\* two roots closed units under one name, each
\* matching the same keywords, and the run is over
C4_Witness ==
    /\ pc = "done"
    /\ NamesAgreeOnKeywords
    /\ Cardinality(DirsWithUnits) = 2
    /\ \E i, j \in 1..Len(units) :
          /\ units[i].dir # units[j].dir
          /\ units[i].name = units[j].name
          /\ units[i].found
    /\ \E c \in Range(Categories) : DOMAIN reports[c] # {}

\* C5: for every method with findings and each category, the keywords
\* reported are the method's keywords that are in the category's list, and
\* the method is in the category's report exactly when there is one.
C5_ReportIsIntersection ==
    pc = "done" =>
        \A c \in Range(Categories) :
            /\ DOMAIN reports[c] \subseteq DOMAIN booleanMethodsWithKeywords
            /\ \A m \in DOMAIN booleanMethodsWithKeywords :
                LET common == Range(booleanMethodsWithKeywords[m])
                                \cap Range(CategoryKeywords(c))
                IN  /\ m \in DOMAIN reports[c] <=> common # {}
                    /\ m \in DOMAIN reports[c] => Range(reports[c][m]) = common

\* a method reported in one category with a part of its keywords and absent
\* from another category
C5_Witness ==
    /\ pc = "done"
    /\ \E m \in DOMAIN booleanMethodsWithKeywords : \E c1, c2 \in Range(Categories) :
          /\ m \in DOMAIN reports[c1]
          /\ Range(reports[c1][m]) # Range(booleanMethodsWithKeywords[m])
          /\ m \notin DOMAIN reports[c2]

\* C6: at every point of the scan the names with findings are among the
\* names listed, and every name of a category report is a line of the
\* output file.
C6_ReportedNamesAreIndexed ==
    /\ DOMAIN fnMap \subseteq Range(fnMethods)
    /\ DOMAIN booleanMethodsWithKeywords \subseteq methodSet
    /\ pc = "done" =>
          \A c \in Range(Categories) : \A n \in DOMAIN reports[c] :
              /\ n \in methodSet
              /\ \E i \in 1..Len(outputLines) : outputLines[i] = n \o "\n"

\* the run is over with a name in a category report
C6_Witness ==
    /\ pc = "done"
    /\ \E c \in Range(Categories) : DOMAIN reports[c] # {}

\* name is the path without ".smali", "/" and "$" turned into ".", then
\* "." , the method and "()"
IsQualifiedName(name, path, method) ==
    LET stem == SubSeq(path, 1, Len(path) - Len(".smali"))
    IN  /\ Len(name) = Len(stem) + Len(method) + 3
        /\ \A k \in 1..Len(stem) :
              CharAt(name, k) = IF CharAt(stem, k) \in {"/", "$"} THEN "." ELSE CharAt(stem, k)
        /\ From(name, Len(stem) + 1) = "." \o method \o "()"

\* C7: the output file holds one line for each distinct qualified name of
\* the closed units, matched or not, no line twice, and the total printed
\* is the number of distinct names.
C7_OneLinePerDistinctName ==
    pc = "done" =>
        /\ \A i, j \in 1..Len(outputLines) : outputLines[i] = outputLines[j] => i = j
        /\ Range(outputLines) = { units[i].name \o "\n" : i \in 1..Len(units) }
        /\ totalCount = Cardinality({ units[i].name : i \in 1..Len(units) })
        /\ totalCount = Len(outputLines)
        /\ \A i \in 1..Len(units) :
              IsQualifiedName(units[i].name,
                              PathOf(<<units[i].dir, units[i].entry>>), units[i].method)

\* b/C.smali and b$C.smali of one root closed a unit under the same name,
\* one of them without a keyword, and the file holds one line
C7_Witness ==
    /\ pc = "done"
    /\ Len(outputLines) = 1
    /\ \E i, j \in 1..Len(units) :
          /\ units[i].dir = units[j].dir
          /\ units[i].entry # units[j].entry
          /\ units[i].name = units[j].name
          /\ ~units[j].found

\* the pairs <<a, b>> of declaration lines of a file, a before b, with no
\* terminator line from a up to b; the lines are those ReadString delivers
OverwrittenBy(f) ==
    LET text == ContentOf(f)
        decl == DeclLines(text, ReadLineEnds(text))
        term == TermLines(text, ReadLineEnds(text))
    IN  { p \in decl \X decl :
            p[1] < p[2] /\ \A t \in term : ~(p[1] <= t /\ t < p[2]) }

\* the terminator line that closes declaration line b: the first terminator
\* at or after b, when no declaration lies between; 0 when there is none
ClosingLine(f, b) ==
    LET text  == ContentOf(f)
        decl  == DeclLines(text, ReadLineEnds(text))
        after == { t \in TermLines(text, ReadLineEnds(text)) : t >= b }
    IN  IF after = {} THEN 0
        ELSE IF \E c \in decl : b < c /\ c <= SetMin(after) THEN 0
        ELSE SetMin(after)

\* C8: when a declaration line a is followed by a declaration line b before
\* any terminator, no classified text holds a line from a up to b, and the
\* terminator that closes b emits exactly one unit, named by b, on the text
\* from line b through that terminator.
C8_SecondDeclarationWins ==
    ScanComplete =>
        /\ booleanMethods = [i \in 1..Len(units) |-> units[i].name]
        /\ \A f \in SmaliFiles : \A p \in OverwrittenBy(f) :
            LET text == ContentOf(f)
                t    == ClosingLine(f, p[2])
            IN  /\ \A i \in UnitsOfFile(f) :
                      \/ units[i].end < LineStart(text, p[1])
                      \/ UnitStart(units[i]) >= LineStart(text, p[2])
                /\ t # 0 =>
                      /\ Cardinality({ i \in UnitsOfFile(f) : units[i].end = t }) = 1
                      /\ \A i \in UnitsOfFile(f) :
                            units[i].end = t =>
                                /\ units[i].body = SubSeq(text, LineStart(text, p[2]), t)
                                /\ units[i].method = methodPattern(LineAt(text, p[2])).name
                                /\ units[i].name = FullMethodName(ClassName(PathOf(f)),
                                                                  units[i].method)

\* a declaration, another declaration of another name, then the terminator
\* that closed it
C8_Witness ==
    /\ ScanComplete
    /\ \E f \in SmaliFiles : \E p \in OverwrittenBy(f) :
          /\ ClosingLine(f, p[2]) # 0
          /\ methodPattern(LineAt(ContentOf(f), p[1])).name
                # methodPattern(LineAt(ContentOf(f), p[2])).name
          /\ \E i \in UnitsOfFile(f) : units[i].end = ClosingLine(f, p[2])

\* the declaration lines of a file open at its end: no terminator line that
\* ReadString delivers comes at or after them
OpenAtEnd(f) ==
    LET text == ContentOf(f)
    IN  { a \in DeclLines(text, AllLineEnds(text)) :
            \A t \in TermLines(text, ReadLineEnds(text)) : t < a }

\* C9: a declaration still open when the end of the file is reached emits
\* no unit: no classified text holds its line, and the method list and the
\* findings hold the closed units only.
C9_OpenUnitDroppedAtEOF ==
    ScanComplete =>
        /\ booleanMethods = [i \in 1..Len(units) |-> units[i].name]
        /\ DOMAIN booleanMethodsWithKeywords
              = { units[i].name : i \in { j \in 1..Len(units) : units[j].found } }
        /\ \A f \in SmaliFiles : \A a \in OpenAtEnd(f) :
              \A i \in UnitsOfFile(f) : units[i].end < LineStart(ContentOf(f), a)

\* a file that closed a unit and then ends inside another declaration
C9_Witness ==
    /\ ScanComplete
    /\ \E f \in SmaliFiles : OpenAtEnd(f) # {} /\ UnitsOfFile(f) # {}

ScanErrors == {"walk", "open", "read"}

\* C10: a scan that fails returns no names and no findings, and the run
\* ends there: no output file, no total, no category report, no notice.
C10_FailedScanWritesNothing ==
    /\ pc = "failed" => err \in ScanErrors /\ fnMethods = <<>> /\ fnMap = EmptyMap
    /\ err \in ScanErrors =>
          /\ pc \in {"failed", "exit"}
          /\ ~outputCreated
          /\ outputLines = <<>>
          /\ totalCount = -1
          /\ ~generalNotice
          /\ \A c \in Range(Categories) : printed[c] = "none" /\ reports[c] = EmptyMap

\* the second root failed on a read after it closed a unit, the first root
\* having been scanned and merged, and the run has ended
C10_Witness ==
    /\ pc = "exit"
    /\ err = "read"
    /\ dirIdx = 1
    /\ booleanMethods # <<>>
    /\ \E i \in 1..Len(units) : units[i].dir = 2

(***************************************************************************)
(* The printed reports, main lines 377-500.                                *)
(***************************************************************************)
\* C11: when the run has printed its reports, each of the four categories
\* has produced exactly one output: its list when its report has entries,
\* its own not-found notice when it has none; also in a run in which no
\* method matched a keyword.
C11_OneOutputPerCategory ==
    pc = "done" =>
        \A c \in Range(Categories) :
            /\ printed[c] \in {"list", "notice"}
            /\ printed[c] = "list" <=> DOMAIN CategoryReport(booleanMethodsWithKeywords, c) # {}

(***************************************************************************)
(* The units of the scanner, lines 133-170.                                *)
(***************************************************************************)
\* the newline-ended lines of a text that lie in its characters a..b
LinesWithin(text, a, b) ==
    { e \in ReadLineEnds(text) : a <= LineStart(text, e) /\ e <= b }

\* C12: every unit closed is a run of whole lines of the one file it was
\* closed in; its first line is its only line matching the declaration
\* pattern, its last line its only line matching the terminator pattern
\* (the two may be one line), and its method name is the one captured from
\* its first line. A file starts with the scanner closed, no name and no
\* buffered text, whatever the file before left.
C12_UnitIsOneRunOfOneFile ==
    /\ pc = "read" /\ unread = CurrentEntry.content =>
          ~inMethod /\ currentMethod = "" /\ methodContent = ""
    /\ ScanComplete =>
          \A i \in 1..Len(units) :
              LET u     == units[i]
                  text  == ContentOf(<<u.dir, u.entry>>)
                  a     == UnitStart(u)
                  lines == LinesWithin(text, a, u.end)
              IN  /\ IsSmali(smaliDirs[u.dir][u.entry])
                  /\ 1 <= a /\ a <= u.end /\ u.end <= Len(text)
                  /\ u.body = SubSeq(text, a, u.end)
                  /\ u.end \in lines
                  /\ a = LineStart(text, SetMin(lines))
                  /\ DeclLines(text, lines) = {SetMin(lines)}
                  /\ TermLines(text, lines) = {u.end}
                  /\ u.method = methodPattern(LineAt(text, SetMin(lines))).name

\* the scan is complete; the first file ended with a unit open, and the
\* second file, after a line of the open unit's kind, closed a unit that is
\* one line, declaration and terminator at once
C12_Witness ==
    /\ ScanComplete
    /\ \E f \in SmaliFiles, g \in SmaliFiles :
          /\ f[2] < g[2]
          /\ OpenAtEnd(f) # {}
          /\ \E i \in UnitsOfFile(g) :
                /\ UnitStart(units[i]) > 1
                /\ Cardinality(LinesWithin(ContentOf(g), UnitStart(units[i]), units[i].end)) = 1

\* C13: when the run has printed its reports, every unit the classifier
\* matched has its name in at least one of the four category reports, and
\* every keyword the classifier returned for it is in at least one of the
\* four category keyword lists.
C13_MatchedMethodIsReported ==
    pc = "done" =>
        \A i \in 1..Len(units) :
            units[i].found =>
                /\ \E c \in Range(Categories) : units[i].name \in DOMAIN reports[c]
                /\ \A k \in Range(units[i].keywords) :
                      \E c \in Range(Categories) : k \in Range(CategoryKeywords(c))

\* C14: in every entry of every category report no keyword is listed
\* twice.
C14_NoKeywordTwiceInAnEntry ==
    pc = "done" =>
        \A c \in Range(Categories) : \A m \in DOMAIN reports[c] :
            \A i \in 1..Len(reports[c][m]), j \in 1..Len(reports[c][m]) :
                reports[c][m][i] = reports[c][m][j] => i = j

====
